---------------------------- MODULE Spec2Model ----------------------------
(***************************************************************************)
(* Verification model of the Traktor Kontrol F1 driver: the input-report   *)
(* reader and change-detection layer (ControllerHandler), the LED output   *)
(* buffer with its logical shadow tables, and the stand-alone poller of    *)
(* main.cpp with its MidiHandler.                                          *)
(*                                                                         *)
(* Numbers: a byte is 0..255.  Brightness is a float in the source; the    *)
(* model carries it in hundredths (20 = 0.2f, 100 = 1.0f).  For every      *)
(* brightness the model uses and every 8-bit channel value the float       *)
(* expression of convertTo7Bit and the integer expression below give the   *)
(* same byte, and (raw * 127) \div 4095 equals the float expression of     *)
(* rawToNormalized for every raw value 0..4095.                            *)
(***************************************************************************)
EXTENDS Integers, Sequences, FiniteSets, TLC

VARIABLES
    \* ---- ControllerHandler (src/src/input_reader_fader.cpp) ----
    previous_state,          \* button_state.previous_state[4][4]
    current_state,           \* button_state.current_state[4][4]
    specialPressed,          \* file-scope bool specialPressed[9]
    previous_knob_values,    \* analog_state.previous_knob_values[4]
    previous_fader_values,   \* analog_state.previous_fader_values[4]
    is_fader_value_dirty,    \* analog_state.is_fader_value_dirty[4]
    last_slider_change,      \* analog_state.last_slider_change[4] (ms)
    current_effect_page,     \* ControllerHandler::current_effect_page
    wheel_initialized,       \* WheelInputReader: a previous sample exists
    wheel_previous,          \* WheelInputReader: previous encoder sample
    now,                     \* std::chrono::system_clock::now(), in ms
    events,                  \* delegate calls made by the last run()
    bytes_read,              \* value hid_read returned in the last read
    input_report_buffer,     \* the stack buffer after the last read
    run_result,              \* value returned by the last run()
    last_frame,              \* report of the last frame run() processed
    frames_processed,        \* processed frames so far: 0, 1 or more
    burst_start,             \* per fader: time of the first change not yet
                             \* reported, or -1
    burst_changes,           \* per fader: changes inside the window of the
                             \* current burst: 0, 1, 2 or more
    last_reported,           \* per fader: the value of the last slider
                             \* event the delegate received, or -1
    \* ---- LED controller (src/src/led_controller_base.cpp) ----
    led_buffer,              \* unsigned char led_buffer[81]
    matrix_states,           \* static LEDStateMatrix matrix_states[5][5]
    special_states,          \* static LEDState special_states[5]
    control_states,          \* static LEDState control_states[3]
    stop_states,             \* static LEDState stop_states[4]
    past_special,            \* the three floats behind special_states[4]
    layout,                  \* where the build put control_states: right
                             \* after special_states, after padding, or
                             \* elsewhere; unknown until a write past
                             \* special_states shows it
    last_sent,               \* the last report handed to hid_write
    led_call,                \* the last LED call and its arguments
    led_before,              \* led_buffer as it was before that call
    led_ops,                 \* LED calls made so far
    \* ---- main.cpp poller and its MidiHandler ----
    main_pc,                 \* "polling" or "exited"
    main_read,               \* what the last read of main() met
    main_page,               \* main()'s local current_effect_page
    midi_previous_state,     \* MidiHandler button_state.previous_state
    midi_previous_knob,      \* MidiHandler analog_state knob values
    midi_previous_fader,     \* MidiHandler analog_state fader values
    main_wheel_initialized,  \* main()'s WheelInputReader
    main_wheel_previous,
    display_number,          \* DisplayController: number shown
    display_dot,             \* DisplayController: left dot
    midi_out,                \* MIDI messages sent by the last iteration
    \* ---- the two execution contexts that call the LED setters ----
    thread_pc,               \* per context: "idle", or the statement of
                             \* the setter it will execute next
    thread_call,             \* per context: the setter call it is inside
    wild                     \* a store went past the end of stop_states,
                             \* into memory this model does not describe

inputVars == <<previous_state, current_state, specialPressed,
               previous_knob_values, previous_fader_values,
               is_fader_value_dirty, last_slider_change,
               current_effect_page, wheel_initialized, wheel_previous,
               now, events, bytes_read, input_report_buffer, run_result,
               last_frame, frames_processed, burst_start, burst_changes,
               last_reported>>

ledVars == <<led_buffer, matrix_states, special_states, control_states,
             stop_states, past_special, layout, last_sent,
             led_call, led_before, led_ops>>

mainVars == <<main_pc, main_read, main_page, midi_previous_state,
              midi_previous_knob, midi_previous_fader,
              main_wheel_initialized, main_wheel_previous,
              display_number, display_dot, midi_out>>

threadVars == <<thread_pc, thread_call, wild>>

vars == <<inputVars, ledVars, mainVars, threadVars>>

-----------------------------------------------------------------------------
(* Program constants *)

INPUT_REPORT_SIZE == 22
INPUT_REPORT_ID == 1
BUTTON_BYTE_SPECIAL == 3
BUTTON_BYTE_STOP_AND_CONTROL == 4
KNOB_BYTE_START == 6
KNOB_BYTES_PER_KNOB == 2
KNOB_RAW_MIN == 0
KNOB_RAW_MAX == 4095
KNOB_12BIT_MASK == 4095
FADER_BYTE_START == 14
FADER_BYTES_PER_FADER == 2
FADER_RAW_MIN == 0
FADER_RAW_MAX == 4095
FADER_12BIT_MASK == 4095
QuiescenceMs == 50
WHEEL_BYTE == 5

Rows == 0..3
Cols == 0..3
Channels == 0..3
SpecialIdx == 0..8
StopIdx == 0..3

-----------------------------------------------------------------------------
(* Bit arithmetic on unsigned values *)

RECURSIVE BitAnd(_, _)
BitAnd(a, b) ==
    IF a = 0 \/ b = 0 THEN 0
    ELSE (IF a % 2 = 1 /\ b % 2 = 1 THEN 1 ELSE 0)
         + 2 * BitAnd(a \div 2, b \div 2)

RECURSIVE BitOr(_, _)
BitOr(a, b) ==
    IF a = 0 THEN b
    ELSE IF b = 0 THEN a
    ELSE (IF a % 2 = 1 \/ b % 2 = 1 THEN 1 ELSE 0)
         + 2 * BitOr(a \div 2, b \div 2)

Shl(a, n) == a * (2 ^ n)

UChar(x) == x % 256

-----------------------------------------------------------------------------
(* Input report accessors (src/src/input_reader_base.cpp) *)

\* variant: the report id is not looked at
readInputReport_anyId(n, buffer) == n > 0

\* bytes_read <= 0 and a wrong first byte both return false; nothing
\* else is checked, the length of a positive read included.
readInputReport(n, buffer) ==
    IF n <= 0 THEN FALSE
    ELSE IF buffer[0] # INPUT_REPORT_ID THEN FALSE
    ELSE TRUE

isSpecialButtonPressed(buffer, index) ==
    IF index < 6
    THEN BitAnd(buffer[BUTTON_BYTE_SPECIAL], UChar(Shl(1, 7 - index))) # 0
    ELSE BitAnd(buffer[BUTTON_BYTE_STOP_AND_CONTROL],
                UChar(Shl(1, 3 - (index - 6)))) # 0

\* variant: the stop buttons read from the low nibble of their byte
isStopButtonPressed_lowNibble(buffer, button) ==
    BitAnd(buffer[BUTTON_BYTE_STOP_AND_CONTROL],
           UChar(Shl(1, 3 - button))) # 0

isStopButtonPressed(buffer, button) ==
    BitAnd(buffer[BUTTON_BYTE_STOP_AND_CONTROL],
           UChar(Shl(1, 7 - button))) # 0

\* variant: the byte chosen by the row's parity, the nibble by its half
isMatrixButtonPressed_rowParity(buffer, row, col) ==
    BitAnd(buffer[(row % 2) + 1],
           UChar(Shl(Shl(1, 3 - col), (1 - (row \div 2)) * 4))) # 0

isMatrixButtonPressed(buffer, row, col) ==
    BitAnd(buffer[(row \div 2) + 1],
           UChar(Shl(Shl(1, 3 - col), (1 - (row % 2)) * 4))) # 0

-----------------------------------------------------------------------------
(* Analog readers (knob reader, src/src/input_reader_fader.cpp) *)

KnobClampRawValue(raw_value) ==
    IF raw_value < KNOB_RAW_MIN THEN KNOB_RAW_MIN
    ELSE IF raw_value > KNOB_RAW_MAX THEN KNOB_RAW_MAX
    ELSE raw_value

extractRawKnobValue(buffer, knob_number) ==
    LET lsb_position == KNOB_BYTE_START + knob_number * KNOB_BYTES_PER_KNOB
        msb_position == lsb_position + 1
        raw_value == BitOr(buffer[lsb_position], Shl(buffer[msb_position], 8))
                        % 65536
    IN  KnobClampRawValue(BitAnd(raw_value, KNOB_12BIT_MASK))

KnobRawToNormalized(raw_value) == (raw_value * 127) \div KNOB_RAW_MAX

getKnobValue(buffer, knob_number) ==
    KnobRawToNormalized(extractRawKnobValue(buffer, knob_number))

clampRawValue(raw_value) ==
    IF raw_value < FADER_RAW_MIN THEN FADER_RAW_MIN
    ELSE IF raw_value > FADER_RAW_MAX THEN FADER_RAW_MAX
    ELSE raw_value

\* variant: the first byte of the pair taken as the high one
extractRawFaderValue_msbFirst(buffer, fader_number) ==
    LET lsb_position == FADER_BYTE_START + fader_number * FADER_BYTES_PER_FADER
        msb_position == lsb_position + 1
        raw_value == BitOr(buffer[msb_position], Shl(buffer[lsb_position], 8))
                        % 65536
    IN  clampRawValue(BitAnd(raw_value, FADER_12BIT_MASK))

extractRawFaderValue(buffer, fader_number) ==
    LET lsb_position == FADER_BYTE_START + fader_number * FADER_BYTES_PER_FADER
        msb_position == lsb_position + 1
        raw_value == BitOr(buffer[lsb_position], Shl(buffer[msb_position], 8))
                        % 65536
    IN  clampRawValue(BitAnd(raw_value, FADER_12BIT_MASK))

\* variant: the sample divided by 4096, the number of raw values
rawToNormalized_by4096(raw_value) ==
    (raw_value * 127) \div (FADER_RAW_MAX + 1)

rawToNormalized(raw_value) == (raw_value * 127) \div FADER_RAW_MAX

getFaderValue(buffer, fader_number) ==
    rawToNormalized(extractRawFaderValue(buffer, fader_number))

-----------------------------------------------------------------------------
(* Delegate calls and the loops that produce them *)

Ev(name, a, b) == [ev |-> name, a |-> a, b |-> b]

RECURSIVE ConcatRange(_, _, _)
ConcatRange(f, lo, hi) ==
    IF lo > hi THEN <<>> ELSE f[lo] \o ConcatRange(f, lo + 1, hi)

\* ControllerHandler::updateButtons, first loop: the nine special and
\* control buttons, edge-triggered against specialPressed.
SpecialEvents(buffer, pressed) ==
    ConcatRange([i \in SpecialIdx |->
        IF isSpecialButtonPressed(buffer, i)
        THEN (IF ~pressed[i] THEN <<Ev("onButtonPress", 4 + i, 0)>> ELSE <<>>)
        ELSE (IF pressed[i] THEN <<Ev("onButtonRelease", 4 + i, 0)>> ELSE <<>>)],
        0, 8)

SpecialNext(buffer, pressed) ==
    [i \in SpecialIdx |->
        IF isSpecialButtonPressed(buffer, i)
        THEN (IF ~pressed[i] THEN TRUE ELSE pressed[i])
        ELSE (IF pressed[i] THEN FALSE ELSE pressed[i])]

\* ControllerHandler::updateButtons, second loop: the four stop buttons,
\* reported whenever they read pressed; no state is kept for them.
StopEvents(buffer) ==
    ConcatRange([i \in StopIdx |->
        IF isStopButtonPressed(buffer, i)
        THEN <<Ev("onButtonPress", i, 0)>> ELSE <<>>], 0, 3)

updateButtons(buffer, pressed) ==
    SpecialEvents(buffer, pressed) \o StopEvents(buffer)

\* ControllerHandler::updateMatrixButtonStates, rows outside, columns inside.
MatrixEvents(buffer, previous) ==
    ConcatRange([n \in 0..15 |->
        LET row == n \div 4
            col == n % 4
            current_pressed == isMatrixButtonPressed(buffer, row, col)
        IN  IF current_pressed # previous[row][col]
            THEN (IF current_pressed
                  THEN <<Ev("onMatrixButtonPress", row, col)>>
                  ELSE <<Ev("onMatrixButtonRelease", row, col)>>)
            ELSE <<>>], 0, 15)

\* variant: a pressed button is never stored as released again
MatrixNext_latched(buffer) ==
    [row \in Rows |-> [col \in Cols |->
        previous_state[row][col] \/ isMatrixButtonPressed(buffer, row, col)]]

MatrixNext(buffer) ==
    [row \in Rows |-> [col \in Cols |-> isMatrixButtonPressed(buffer, row, col)]]

\* variant: a knob is reported only when it moved by more than one step
KnobEvents_deadband(buffer, previous) ==
    ConcatRange([knob \in Channels |->
        LET current_value == getKnobValue(buffer, knob)
            delta == current_value - previous[knob]
        IN  IF delta > 1 \/ delta < -1
            THEN <<Ev("onKnobChanged", knob, current_value * 2)>>
            ELSE <<>>], 0, 3)

\* ControllerHandler::updateKnobStates
KnobEvents(buffer, previous) ==
    ConcatRange([knob \in Channels |->
        LET current_value == getKnobValue(buffer, knob)
        IN  IF current_value # previous[knob]
            THEN <<Ev("onKnobChanged", knob, current_value * 2)>>
            ELSE <<>>], 0, 3)

KnobNext(buffer) == [knob \in Channels |-> getKnobValue(buffer, knob)]

\* variant: the first frame is taken as the baseline and marks no fader
FaderMarked_afterBaseline(buffer, fader, previous, dirty) ==
    /\ previous[fader] # -1
    /\ getFaderValue(buffer, fader) # previous[fader]
    /\ ~dirty[fader]

\* ControllerHandler::updateFaderStates, one fader: the dirty flag and the
\* time stamp after the first test, then the decision to report.
FaderMarked(buffer, fader, previous, dirty) ==
    getFaderValue(buffer, fader) # previous[fader] /\ ~dirty[fader]

FaderDirty1(buffer, fader, previous, dirty) ==
    IF FaderMarked(buffer, fader, previous, dirty) THEN TRUE ELSE dirty[fader]

\* variant: every change restarts the window
FaderStamp1_restart(buffer, fader, previous, dirty, stamp, t) ==
    IF getFaderValue(buffer, fader) # previous[fader] THEN t ELSE stamp[fader]

FaderStamp1(buffer, fader, previous, dirty, stamp, t) ==
    IF FaderMarked(buffer, fader, previous, dirty) THEN t ELSE stamp[fader]

FaderFires(buffer, fader, previous, dirty, stamp, t) ==
    /\ FaderDirty1(buffer, fader, previous, dirty)
    /\ t - FaderStamp1(buffer, fader, previous, dirty, stamp, t) > QuiescenceMs

FaderEvents(buffer, previous, dirty, stamp, t) ==
    ConcatRange([fader \in Channels |->
        IF FaderFires(buffer, fader, previous, dirty, stamp, t)
        THEN <<Ev("onSliderChanged", fader, getFaderValue(buffer, fader) * 2)>>
        ELSE <<>>], 0, 3)

FaderDirtyNext(buffer, previous, dirty, stamp, t) ==
    [fader \in Channels |->
        IF FaderFires(buffer, fader, previous, dirty, stamp, t) THEN FALSE
        ELSE FaderDirty1(buffer, fader, previous, dirty)]

FaderStampNext(buffer, previous, dirty, stamp, t) ==
    [fader \in Channels |->
        IF FaderFires(buffer, fader, previous, dirty, stamp, t) THEN t
        ELSE FaderStamp1(buffer, fader, previous, dirty, stamp, t)]

\* variant: a fader's previous value is stored only when its event is sent
FaderNext_onReport(buffer) ==
    [fader \in Channels |->
        IF FaderFires(buffer, fader, previous_fader_values,
                      is_fader_value_dirty, last_slider_change, now)
        THEN getFaderValue(buffer, fader)
        ELSE previous_fader_values[fader]]

FaderNext(buffer) == [fader \in Channels |-> getFaderValue(buffer, fader)]

\* WheelInputReader::checkWheelRotation: no direction without a previous
\* sample; afterwards the direction of the step of the encoder byte.
checkWheelRotation(buffer, initialized, previous) ==
    LET step == (buffer[WHEEL_BYTE] - previous + 256) % 256
    IN  IF ~initialized \/ step = 0 THEN "NONE"
        ELSE IF step < 128 THEN "CLOCKWISE" ELSE "COUNTER_CLOCKWISE"

Min(a, b) == IF a < b THEN a ELSE b
Max(a, b) == IF a > b THEN a ELSE b

PageNext(direction, page) ==
    IF direction = "CLOCKWISE" THEN Min(page + 1, 99)
    ELSE IF direction = "COUNTER_CLOCKWISE" THEN Max(page - 1, 1)
    ELSE page

WheelEvents(direction, page) ==
    IF direction = "NONE" THEN <<>>
    ELSE <<Ev("onWheelChanged", PageNext(direction, page), 0)>>

-----------------------------------------------------------------------------
(* Reads the model enumerates *)

MaxTime == 102
MaxPage == 2
ShortLen == 5

ClockSteps == {50, 51}

ZeroReport ==
    [i \in 0..(INPUT_REPORT_SIZE - 1) |-> IF i = 0 THEN INPUT_REPORT_ID ELSE 0]

Patch(r, i, v) == [r EXCEPT ![i] = v]

\* one field of the report away from rest: matrix cells (0,0) and (3,3),
\* shift, stop 1, capture, the wheel, knob 0 (with bits above the 12th
\* set in byte 7) and two positions of fader 0
FieldChoices ==
    { <<1, 128>>, <<2, 1>>, <<3, 128>>, <<4, 128>>, <<4, 2>>,
      <<5, 1>>, <<7, 255>>, <<14, 33>>, <<14, 66>> }

BusyReport ==
    [i \in 0..(INPUT_REPORT_SIZE - 1) |->
        CASE i = 0 -> INPUT_REPORT_ID
          [] i = 1 -> 136
          [] i = 2 -> 65
          [] i = 3 -> 132
          [] i = 4 -> 138
          [] i = 5 -> 1
          [] i = 6 -> 33
          [] i = 14 -> 66
          [] i = 21 -> 15
          [] OTHER -> 0]

GoodReports ==
    {ZeroReport, BusyReport} \cup
    {Patch(ZeroReport, c[1], c[2]) : c \in FieldChoices}

BadIdReports == {Patch(BusyReport, 0, 2)}

Reports == GoodReports \cup BadIdReports

\* what the stack buffer may hold when the read wrote nothing into it:
\* the bytes of an earlier, well-formed report
StaleBuffers == {BusyReport}

\* what the buffer may hold after a short read: the bytes behind the read
\* ones are whatever the stack held
ShortBuffers == {BusyReport}

ReadBuffers(n) ==
    IF n <= 0 THEN StaleBuffers
    ELSE IF n < INPUT_REPORT_SIZE THEN ShortBuffers
    ELSE Reports

\* hid_read: an error, no data, a short read, a full report
ReadLengths == {-1, 0, ShortLen, INPUT_REPORT_SIZE}

-----------------------------------------------------------------------------
(* ControllerHandler *)

InitFaderDirty == [fader \in Channels |-> FALSE]
InitSliderChange == [fader \in Channels |-> 0]

InitInput ==
    /\ previous_state = [row \in Rows |-> [col \in Cols |-> FALSE]]
    /\ current_state = [row \in Rows |-> [col \in Cols |-> FALSE]]
    /\ specialPressed = [i \in SpecialIdx |-> FALSE]
    /\ previous_knob_values = [i \in Channels |-> -1]
    /\ previous_fader_values = [i \in Channels |-> -1]
    /\ is_fader_value_dirty = InitFaderDirty
    /\ last_slider_change = InitSliderChange
    /\ current_effect_page = 1
    /\ wheel_initialized = FALSE
    /\ wheel_previous = 0
    /\ now = 0
    /\ events = <<>>
    /\ bytes_read = 0
    /\ input_report_buffer = ZeroReport
    /\ run_result = FALSE
    /\ last_frame = ZeroReport
    /\ frames_processed = 0
    /\ burst_start = [fader \in Channels |-> -1]
    /\ burst_changes = [fader \in Channels |-> 0]
    /\ last_reported = [fader \in Channels |-> -1]

\* the slider events of one fader among the delegate calls of a frame
SliderEvents(evs, fader) ==
    SelectSeq(evs, LAMBDA e : e.ev = "onSliderChanged" /\ e.a = fader)

\* a fader's value changes in a frame when it differs from the value of the
\* processed frame before; in the first frame every value is new
FaderChanged(buffer, fader) ==
    \/ frames_processed = 0
    \/ getFaderValue(buffer, fader) # getFaderValue(last_frame, fader)

\* the start of the burst of changes a frame at time now belongs to
BurstStart(buffer, fader) ==
    IF burst_start[fader] # -1 THEN burst_start[fader]
    ELSE IF FaderChanged(buffer, fader) THEN now
    ELSE -1

\* a slider event closes the burst
BurstNext(buffer, evs) ==
    [fader \in Channels |->
        IF SliderEvents(evs, fader) # <<>> THEN -1
        ELSE BurstStart(buffer, fader)]

\* changes of a burst that fell inside its window, counted up to 2; the count
\* of a closed burst stays for the frame that closed it
BurstChangesNext(buffer) ==
    [fader \in Channels |->
        IF burst_start[fader] = -1
        THEN IF FaderChanged(buffer, fader) THEN 1 ELSE 0
        ELSE IF /\ FaderChanged(buffer, fader)
                /\ now - burst_start[fader] <= QuiescenceMs
             THEN Min(burst_changes[fader] + 1, 2)
             ELSE burst_changes[fader]]

\* the value the delegate last received for each fader
ReportedNext(evs) ==
    [fader \in Channels |->
        IF SliderEvents(evs, fader) # <<>>
        THEN SliderEvents(evs, fader)[Len(SliderEvents(evs, fader))].b
        ELSE last_reported[fader]]

\* ControllerHandler::run on a read that returned n and left buffer in
\* input_report_buffer.
run(n, buffer) ==
    LET ok == readInputReport(n, buffer)
        direction == checkWheelRotation(buffer, wheel_initialized,
                                        wheel_previous)
    IN  /\ bytes_read' = n
        /\ input_report_buffer' = buffer
        /\ run_result' = ok
        /\ IF ~ok
           THEN /\ events' = <<>>
                /\ UNCHANGED <<previous_state, current_state, specialPressed,
                               previous_knob_values, previous_fader_values,
                               is_fader_value_dirty, last_slider_change,
                               current_effect_page, wheel_initialized,
                               wheel_previous, last_frame,
                               frames_processed, burst_start, burst_changes,
                               last_reported>>
           ELSE /\ events' =
                       updateButtons(buffer, specialPressed)
                    \o MatrixEvents(buffer, previous_state)
                    \o KnobEvents(buffer, previous_knob_values)
                    \o FaderEvents(buffer, previous_fader_values,
                                   is_fader_value_dirty, last_slider_change,
                                   now)
                    \o WheelEvents(direction, current_effect_page)
                /\ specialPressed' = SpecialNext(buffer, specialPressed)
                /\ previous_state' = MatrixNext(buffer)
                /\ current_state' = MatrixNext(buffer)
                /\ previous_knob_values' = KnobNext(buffer)
                /\ is_fader_value_dirty' =
                       FaderDirtyNext(buffer, previous_fader_values,
                                      is_fader_value_dirty,
                                      last_slider_change, now)
                /\ last_slider_change' =
                       FaderStampNext(buffer, previous_fader_values,
                                      is_fader_value_dirty,
                                      last_slider_change, now)
                /\ previous_fader_values' = FaderNext(buffer)
                /\ current_effect_page' = PageNext(direction,
                                                   current_effect_page)
                /\ wheel_initialized' = TRUE
                /\ wheel_previous' = buffer[WHEEL_BYTE]
                /\ last_frame' = buffer
                /\ frames_processed' = Min(frames_processed + 1, 1)
                /\ burst_start' = BurstNext(buffer, events')
                /\ burst_changes' = BurstChangesNext(buffer)
                /\ last_reported' = ReportedNext(events')
        /\ UNCHANGED now

Run ==
    /\ \E n \in ReadLengths :
          \E buffer \in ReadBuffers(n) :
              /\ run(n, buffer)
              /\ current_effect_page' <= MaxPage
    /\ UNCHANGED <<ledVars, mainVars, threadVars>>

\* the system clock moves on between two polls
Tick ==
    /\ \E d \in ClockSteps : now + d <= MaxTime /\ now' = now + d
    /\ UNCHANGED <<previous_state, current_state, specialPressed,
                   previous_knob_values, previous_fader_values,
                   is_fader_value_dirty, last_slider_change,
                   current_effect_page, wheel_initialized, wheel_previous,
                   events, bytes_read, input_report_buffer, run_result,
                   last_frame, frames_processed, burst_start, burst_changes,
                   last_reported>>
    /\ UNCHANGED <<ledVars, mainVars, threadVars>>

-----------------------------------------------------------------------------
(* LED controller (src/src/led_controller_base.cpp) *)

LED_REPORT_SIZE == 81
LED_REPORT_ID == 128
LED_BYTE_SPECIAL_START == 17
LED_BYTE_CONTROL_START == 22
LED_BYTE_MATRIX_START == 25
LED_BYTE_STOP_START == 73
LED_OFFSET_BROWSE == 0
LED_OFFSET_SIZE == 1
LED_OFFSET_TYPE == 2
LED_OFFSET_REVERSE == 3
LED_OFFSET_SHIFT == 4
LED_OFFSET_CAPTURE == 0
LED_OFFSET_QUANT == 1
LED_OFFSET_SYNC == 2
LED_OFFSET_STOP4_RIGHT == 0
LED_OFFSET_STOP4_LEFT == 1
LED_OFFSET_STOP3_RIGHT == 2
LED_OFFSET_STOP3_LEFT == 3
LED_OFFSET_STOP2_RIGHT == 4
LED_OFFSET_STOP2_LEFT == 5
LED_OFFSET_STOP1_RIGHT == 6
LED_OFFSET_STOP1_LEFT == 7
MATRIX_LEDS_PER_BUTTON == 3
MATRIX_ROWS == 4
MATRIX_COLS == 4

\* enum class LEDButton, by ordinal
LEDButton ==
    [CAPTURE |-> 0, QUANT |-> 1, SYNC |-> 2, BROWSE |-> 3, SIZE |-> 4,
     TYPE |-> 5, REVERSE |-> 6, SHIFT |-> 7]

LEDButtons == 0..7

\* the palette of getColorWithBrightness, in the caller's (r, g, b)
Palette ==
    [black       |-> [r |-> 0,   g |-> 0,   b |-> 0],
     red         |-> [r |-> 255, g |-> 0,   b |-> 0],
     orange      |-> [r |-> 255, g |-> 97,  b |-> 45],
     lightorange |-> [r |-> 255, g |-> 148, b |-> 0],
     warmyellow  |-> [r |-> 255, g |-> 213, b |-> 0],
     yellow      |-> [r |-> 255, g |-> 255, b |-> 0],
     lime        |-> [r |-> 144, g |-> 255, b |-> 0],
     green       |-> [r |-> 0,   g |-> 255, b |-> 0],
     mint        |-> [r |-> 0,   g |-> 255, b |-> 165],
     cyan        |-> [r |-> 0,   g |-> 255, b |-> 255],
     turquise    |-> [r |-> 0,   g |-> 206, b |-> 255],
     blue        |-> [r |-> 0,   g |-> 49,  b |-> 255],
     plum        |-> [r |-> 69,  g |-> 49,  b |-> 218],
     violet      |-> [r |-> 125, g |-> 41,  b |-> 217],
     purple      |-> [r |-> 229, g |-> 18,  b |-> 255],
     magenta     |-> [r |-> 255, g |-> 0,   b |-> 255],
     fuchsia     |-> [r |-> 255, g |-> 0,   b |-> 136],
     white       |-> [r |-> 255, g |-> 255, b |-> 255]]

LEDColors == DOMAIN Palette

ClampBrightness(brightness) ==
    IF brightness < 0 THEN 0
    ELSE IF brightness > 100 THEN 100
    ELSE brightness

\* variant: the cast truncates without the added half
convertTo7Bit_truncate(value_8bit, brightness) ==
    LET b == ClampBrightness(brightness)
        result == value_8bit * 127 * b
        clamped == IF result < 0 THEN 0
                   ELSE IF result > 127 * 25500 THEN 127 * 25500
                   ELSE result
    IN  UChar(clamped \div 25500)

\* result = value_8bit * 127 / 255 * brightness, kept as the numerator over
\* 25500; the cast of result + 0.5 truncates.
convertTo7Bit(value_8bit, brightness) ==
    LET b == ClampBrightness(brightness)
        result == value_8bit * 127 * b
        clamped == IF result < 0 THEN 0
                   ELSE IF result > 127 * 25500 THEN 127 * 25500
                   ELSE result
    IN  UChar((2 * clamped + 25500) \div 51000)

\* the palette in red, green, blue order in the three bytes
getColorWithBrightness_rgbOrder(color, brightness) ==
    [blue  |-> convertTo7Bit(Palette[color].r, brightness),
     red   |-> convertTo7Bit(Palette[color].g, brightness),
     green |-> convertTo7Bit(Palette[color].b, brightness)]

getColorWithBrightness(color, brightness) ==
    [blue  |-> convertTo7Bit(Palette[color].b, brightness),
     red   |-> convertTo7Bit(Palette[color].r, brightness),
     green |-> convertTo7Bit(Palette[color].g, brightness)]

isValidMatrixPosition(row, col) ==
    row >= 1 /\ row <= MATRIX_ROWS /\ col >= 1 /\ col <= MATRIX_COLS

OffState == [color |-> "black", brightness |-> 0]

getMatrixButtonState(row, col) ==
    IF ~isValidMatrixPosition(row, col) THEN OffState
    ELSE matrix_states[row][col]

\* special_states[index] as the build lays the tables out: indices 5..7
\* are behind the end of the five-element array
\* the layouts a build can give the four state tables
Layouts == {"adjacent", "padded", "apart"}

\* the element of control_states that special_states[index], index >= 5,
\* falls on in a layout, or -1 when it falls on no table
ControlAlias(lay, index) ==
    IF lay = "adjacent" THEN index - 5
    ELSE IF lay = "padded" /\ index >= 6 THEN index - 6
    ELSE -1

SpecialSlot(index) ==
    IF index < 5 THEN special_states[index]
    ELSE IF ControlAlias(layout, index) \in 0..2
    THEN control_states[ControlAlias(layout, index)]
    ELSE past_special[index]

getButtonState(button) ==
    IF button < 0 \/ button > 8 THEN 0 ELSE SpecialSlot(button)

\* the element of special_states that getButtonState reads, or -1 when the
\* index test returns the error state first
getButtonStateRead(button) ==
    IF button < 0 \/ button > 8 THEN -1 ELSE button

\* the element of matrix_states that getMatrixButtonState reads, or <<-1, -1>>
getMatrixButtonStateRead(row, col) ==
    IF ~isValidMatrixPosition(row, col) THEN <<-1, -1>> ELSE <<row, col>>

\* variant: the row stride is one cell short
MatrixBase_shortRow(row, col) ==
    LED_BYTE_MATRIX_START
        + ((row * (MATRIX_COLS - 1) + col) * MATRIX_LEDS_PER_BUTTON)

MatrixBase(row, col) ==
    LED_BYTE_MATRIX_START + ((row * MATRIX_COLS + col) * MATRIX_LEDS_PER_BUTTON)

ButtonByte(index) ==
    IF index < 3 THEN LED_BYTE_CONTROL_START + index
    ELSE LED_BYTE_SPECIAL_START + (index - 3)

\* variant: stop LEDs laid out in ascending order, STOP1 at bytes 73 and 74
StopLeftByte_ascending(index) == LED_BYTE_STOP_START + (index * 2) + 1

StopLeftByte(index) == LED_BYTE_STOP_START + (7 - (index * 2))
StopRightByte(index) == LED_BYTE_STOP_START + (7 - (index * 2)) - 1

-----------------------------------------------------------------------------
(* LED calls the model enumerates *)

MaxLedOps == 2

AllCells == Rows \X Cols

MatrixCalls ==
    (AllCells \X {"orange"} \X {100} \X {TRUE}) \cup
    ({<<0, 0>>, <<1, 1>>} \X {"red", "blue"} \X {20, 100} \X BOOLEAN) \cup
    ({<<3, 2>>} \X LEDColors \X {100} \X {FALSE})

ButtonCalls ==
    (LEDButtons \X {50} \X {TRUE}) \cup
    ({LEDButton.CAPTURE, LEDButton.SHIFT} \X {-50, 80, 150} \X BOOLEAN)

StopCalls ==
    (StopIdx \X {100} \X {TRUE}) \cup ({0, 3} \X {0, 80} \X BOOLEAN)

LedCall(op, a, b, color, brightness, store) ==
    [op |-> op, a |-> a, b |-> b, color |-> color,
     brightness |-> brightness, store |-> store]

\* initializeLEDController with an open device: buffer cleared, report id
\* set, tables off, first report sent.
InitLED ==
    /\ led_buffer = [i \in 0..(LED_REPORT_SIZE - 1) |->
                        IF i = 0 THEN LED_REPORT_ID ELSE 0]
    /\ matrix_states = [row \in 0..4 |-> [col \in 0..4 |-> OffState]]
    /\ special_states = [i \in 0..4 |-> 0]
    /\ control_states = [i \in 0..2 |-> 0]
    /\ stop_states = [i \in 0..3 |-> 0]
    /\ past_special = [i \in 5..8 |-> 0]
    /\ layout = "unknown"
    /\ last_sent = led_buffer
    /\ led_call = LedCall("initializeLEDController", 0, 0, "black", 0, FALSE)
    /\ led_before = led_buffer
    /\ led_ops = 0

\* sendLEDReport(current_device): the whole buffer goes to hid_write
sendLEDReport(buffer) == last_sent' = buffer

\* setMatrixButtonLED(row, col, BRGColor, store_led_state)
MatrixWrite(buffer, row, col, brg) ==
    LET base_byte == MatrixBase(row, col)
    IN  [buffer EXCEPT ![base_byte] = brg.blue,
                       ![base_byte + 1] = brg.red,
                       ![base_byte + 2] = brg.green]

\* setMatrixButtonLED(row, col, LEDColor, brightness, store_led_state)
setMatrixButtonLED(row, col, color, brightness, store_led_state) ==
    /\ led_ops < MaxLedOps
    /\ led_buffer' = MatrixWrite(led_buffer, row, col,
                                 getColorWithBrightness(color, brightness))
    /\ sendLEDReport(led_buffer')
    /\ led_call' = LedCall("setMatrixButtonLED", row, col, color, brightness,
                           store_led_state)
    /\ led_before' = led_buffer
    /\ led_ops' = led_ops + 1
    /\ UNCHANGED <<matrix_states, special_states, control_states,
                   stop_states, past_special, layout>>

ButtonWrite(buffer, index, brightness) ==
    [buffer EXCEPT ![ButtonByte(index)] =
                        convertTo7Bit(255, ClampBrightness(brightness))]

setButtonLED(button, brightness, store_led_state) ==
    LET index == button
        b == ClampBrightness(brightness)
    IN  /\ led_ops < MaxLedOps
        /\ IF ~store_led_state
           THEN UNCHANGED <<special_states, control_states, past_special,
                            layout>>
           ELSE IF index < 5
           THEN /\ special_states' = [special_states EXCEPT ![index] = b]
                /\ UNCHANGED <<control_states, past_special, layout>>
           ELSE /\ layout' \in (IF layout = "unknown" THEN Layouts
                                 ELSE {layout})
                /\ IF ControlAlias(layout', index) \in 0..2
                   THEN /\ control_states' =
                               [control_states EXCEPT
                                    ![ControlAlias(layout', index)] = b]
                        /\ UNCHANGED <<special_states, past_special>>
                   ELSE /\ past_special' =
                               [past_special EXCEPT ![index] = b]
                        /\ UNCHANGED <<special_states, control_states>>
        /\ led_buffer' = ButtonWrite(led_buffer, index, brightness)
        /\ sendLEDReport(led_buffer')
        /\ led_call' = LedCall("setButtonLED", button, 0, "black", brightness,
                               store_led_state)
        /\ led_before' = led_buffer
        /\ led_ops' = led_ops + 1
        /\ UNCHANGED <<matrix_states, stop_states>>

StopWrite(buffer, index, brightness) ==
    LET led_value == convertTo7Bit(255, ClampBrightness(brightness))
    IN  [buffer EXCEPT ![StopRightByte(index)] = led_value,
                       ![StopLeftByte(index)] = led_value]

\* variant: the stop setter records the brightness whatever the flag says
setStopButtonLED_alwaysStores(index, brightness, store_led_state) ==
    /\ led_ops < MaxLedOps
    /\ stop_states' = [stop_states EXCEPT
                           ![index] = ClampBrightness(brightness)]
    /\ led_buffer' = StopWrite(led_buffer, index, brightness)
    /\ sendLEDReport(led_buffer')
    /\ led_call' = LedCall("setStopButtonLED", index, 0, "black", brightness,
                           store_led_state)
    /\ led_before' = led_buffer
    /\ led_ops' = led_ops + 1
    /\ UNCHANGED <<matrix_states, special_states, control_states,
                   past_special, layout>>

setStopButtonLED(index, brightness, store_led_state) ==
    /\ led_ops < MaxLedOps
    /\ stop_states' = IF store_led_state
                      THEN [stop_states EXCEPT
                                ![index] = ClampBrightness(brightness)]
                      ELSE stop_states
    /\ led_buffer' = StopWrite(led_buffer, index, brightness)
    /\ sendLEDReport(led_buffer')
    /\ led_call' = LedCall("setStopButtonLED", index, 0, "black", brightness,
                           store_led_state)
    /\ led_before' = led_buffer
    /\ led_ops' = led_ops + 1
    /\ UNCHANGED <<matrix_states, special_states, control_states,
                   past_special, layout>>

\* clearAllLEDs zeroing the whole buffer, report identifier included.
clearAllLEDs_wholeBuffer ==
    /\ led_ops < MaxLedOps
    /\ led_buffer' = [i \in 0..(LED_REPORT_SIZE - 1) |-> 0]
    /\ special_states' = [i \in 0..4 |-> 0]
    /\ control_states' = [i \in 0..2 |-> 0]
    /\ stop_states' = [i \in 0..3 |-> 0]
    /\ matrix_states' = [row \in 0..4 |-> [col \in 0..4 |->
                            IF row >= 1 /\ col >= 1 THEN OffState
                            ELSE matrix_states[row][col]]]
    /\ sendLEDReport(led_buffer')
    /\ led_call' = LedCall("clearAllLEDs", 0, 0, "black", 0, FALSE)
    /\ led_before' = led_buffer
    /\ led_ops' = led_ops + 1
    /\ UNCHANGED <<past_special, layout>>

clearAllLEDs ==
    /\ led_ops < MaxLedOps
    /\ led_buffer' = [i \in 0..(LED_REPORT_SIZE - 1) |->
                         IF i = 0 THEN led_buffer[0] ELSE 0]
    /\ special_states' = [i \in 0..4 |-> 0]
    /\ control_states' = [i \in 0..2 |-> 0]
    /\ stop_states' = [i \in 0..3 |-> 0]
    /\ matrix_states' = [row \in 0..4 |-> [col \in 0..4 |->
                            IF row >= 1 /\ col >= 1 THEN OffState
                            ELSE matrix_states[row][col]]]
    /\ sendLEDReport(led_buffer')
    /\ led_call' = LedCall("clearAllLEDs", 0, 0, "black", 0, FALSE)
    /\ led_before' = led_buffer
    /\ led_ops' = led_ops + 1
    /\ UNCHANGED <<past_special, layout>>

SetMatrix ==
    /\ \E c \in MatrixCalls :
          setMatrixButtonLED(c[1][1], c[1][2], c[2], c[3], c[4])
    /\ UNCHANGED <<inputVars, mainVars, threadVars>>

SetButton ==
    /\ \E c \in ButtonCalls : setButtonLED(c[1], c[2], c[3])
    /\ UNCHANGED <<inputVars, mainVars, threadVars>>

SetStop ==
    /\ \E c \in StopCalls : setStopButtonLED(c[1], c[2], c[3])
    /\ UNCHANGED <<inputVars, mainVars, threadVars>>

ClearAll ==
    /\ clearAllLEDs
    /\ UNCHANGED <<inputVars, mainVars, threadVars>>

-----------------------------------------------------------------------------
(* MidiHandler (src/src/midi_handler.cpp) and the loop of main.cpp *)

MIDI_NOTE_MATRIX_BASE == 36
MIDI_CHANNEL == 0
MIDI_NOTE_ON == 144
MIDI_NOTE_OFF == 128
MIDI_CC == 176
MIDI_VELOCITY_ON == 127
MIDI_VELOCITY_OFF == 0
MIDI_CC_KNOB_BASE == 1
MIDI_CC_FADER_BASE == 5

matrixPositionToMidiNote(row, col) == MIDI_NOTE_MATRIX_BASE + (row * 4) + col

sendButtonPress(index) ==
    <<MIDI_NOTE_ON + MIDI_CHANNEL, UChar(36 + 16 + index), MIDI_VELOCITY_ON>>

sendMatrixButtonPress(row, col) ==
    <<MIDI_NOTE_ON + MIDI_CHANNEL, UChar(matrixPositionToMidiNote(row, col)),
      MIDI_VELOCITY_ON>>

sendMatrixButtonRelease(row, col) ==
    <<MIDI_NOTE_OFF + MIDI_CHANNEL, UChar(matrixPositionToMidiNote(row, col)),
      MIDI_VELOCITY_OFF>>

sendKnobChange(knob_number, value) ==
    <<MIDI_CC + MIDI_CHANNEL, UChar(MIDI_CC_KNOB_BASE + knob_number),
      Min(Max(value, 0), 127)>>

sendFaderChange(fader_number, value) ==
    <<MIDI_CC + MIDI_CHANNEL, UChar(MIDI_CC_FADER_BASE + fader_number),
      Min(Max(value, 0), 127)>>

\* MidiHandler::updateButtons: shift and the stop buttons, level-triggered
MidiButtonMsgs(buffer) ==
    (IF isSpecialButtonPressed(buffer, 0) THEN <<sendButtonPress(0)>>
     ELSE <<>>)
    \o ConcatRange([i \in StopIdx |->
          IF isStopButtonPressed(buffer, i) THEN <<sendButtonPress(i)>>
          ELSE <<>>], 0, 3)

\* MidiHandler::updateMatrixButtonStates
MidiMatrixMsgs(buffer, previous) ==
    ConcatRange([n \in 0..15 |->
        LET row == n \div 4
            col == n % 4
            current_pressed == isMatrixButtonPressed(buffer, row, col)
        IN  IF current_pressed # previous[row][col]
            THEN (IF current_pressed
                  THEN <<sendMatrixButtonPress(row, col)>>
                  ELSE <<sendMatrixButtonRelease(row, col)>>)
            ELSE <<>>], 0, 15)

\* MidiHandler::updateKnobStates
MidiKnobMsgs(buffer, previous) ==
    ConcatRange([knob \in Channels |->
        IF getKnobValue(buffer, knob) # previous[knob]
        THEN <<sendKnobChange(knob, getKnobValue(buffer, knob))>>
        ELSE <<>>], 0, 3)

\* MidiHandler::updateFaderStates
MidiFaderMsgs(buffer, previous) ==
    ConcatRange([fader \in Channels |->
        IF getFaderValue(buffer, fader) # previous[fader]
        THEN <<sendFaderChange(fader, getFaderValue(buffer, fader))>>
        ELSE <<>>], 0, 3)

\* DisplayController
setDisplayNumber(number) == display_number' = number
setDisplayDot(on) == display_dot' = on

\* what a read met: hid_read's count and the first byte
ReadKind(n, buffer) ==
    IF n < 0 THEN "error"
    ELSE IF n = 0 THEN "nodata"
    ELSE IF buffer[0] # INPUT_REPORT_ID THEN "malformed"
    ELSE IF n < INPUT_REPORT_SIZE THEN "truncated"
    ELSE "ok"

InitMain ==
    /\ main_pc = "polling"
    /\ main_read = [n |-> INPUT_REPORT_SIZE, buffer |-> ZeroReport,
                    result |-> TRUE]
    /\ main_page = 1
    /\ midi_previous_state = [row \in Rows |-> [col \in Cols |-> FALSE]]
    /\ midi_previous_knob = [i \in Channels |-> -1]
    /\ midi_previous_fader = [i \in Channels |-> -1]
    /\ main_wheel_initialized = FALSE
    /\ main_wheel_previous = 0
    /\ display_number = 1
    /\ display_dot = TRUE
    /\ midi_out = <<>>

\* one pass of the while (true) of main()
mainLoop(n, buffer) ==
    LET ok == readInputReport(n, buffer)
        direction == checkWheelRotation(buffer, main_wheel_initialized,
                                        main_wheel_previous)
    IN  /\ main_pc = "polling"
        /\ main_read' = [n |-> n, buffer |-> buffer, result |-> ok]
        /\ IF ~ok
           THEN /\ main_pc' = "exited"
                /\ midi_out' = <<>>
                /\ UNCHANGED <<main_page, midi_previous_state,
                               midi_previous_knob, midi_previous_fader,
                               main_wheel_initialized, main_wheel_previous,
                               display_number, display_dot>>
           ELSE /\ main_pc' = "polling"
                /\ midi_out' =
                       MidiButtonMsgs(buffer)
                    \o MidiMatrixMsgs(buffer, midi_previous_state)
                    \o MidiKnobMsgs(buffer, midi_previous_knob)
                    \o MidiFaderMsgs(buffer, midi_previous_fader)
                /\ midi_previous_state' = MatrixNext(buffer)
                /\ midi_previous_knob' = KnobNext(buffer)
                /\ midi_previous_fader' = FaderNext(buffer)
                /\ main_wheel_initialized' = TRUE
                /\ main_wheel_previous' = buffer[WHEEL_BYTE]
                /\ main_page' = PageNext(direction, main_page)
                /\ IF direction # "NONE"
                   THEN setDisplayNumber(main_page')
                   ELSE UNCHANGED display_number
                /\ IF isSpecialButtonPressed(buffer, 5)
                   THEN setDisplayDot(TRUE)
                   ELSE IF direction # "NONE"
                   THEN setDisplayDot(FALSE)
                   ELSE UNCHANGED display_dot

MainLoop ==
    /\ \E n \in ReadLengths :
          \E buffer \in ReadBuffers(n) :
              /\ mainLoop(n, buffer)
              /\ main_page' <= MaxPage
    /\ UNCHANGED <<inputVars, ledVars, threadVars>>

-----------------------------------------------------------------------------
(* The LED setters called from two threads: main() runs startupSequence     *)
(* after MidiHandler::initializeMIDI has registered the input callback, and  *)
(* RtMidi calls the callback on its own input thread (src/main.cpp,          *)
(* src/src/midi_handler.cpp). No lock guards led_buffer or the tables, so    *)
(* the statements of two setter calls may interleave in any order.           *)

Threads == {"main", "rtmidi"}

\* status bytes and note numbers of the messages received: the lowest and
\* the highest stop and matrix note, and the first note above the matrix
MidiStatuses == {144, 128}
MidiNotes == {16, 19, 36, 51, 52}

\* MidiHandler::mycallback for a three-byte message: the setter call made
mycallback(status, num) ==
    IF num >= 36 /\ num < (36 + 16)
    THEN IF status = 144
         THEN LedCall("setMatrixButtonLED", (num - 36) \div 4, (num - 36) % 4,
                      "red", 20, FALSE)
         ELSE LedCall("setMatrixButtonLED", (num - 36) \div 4, (num - 36) % 4,
                      "blue", 80, FALSE)
    ELSE IF status = 144
         THEN LedCall("setStopButtonLED", num - 16, 0, "black", 100, TRUE)
         ELSE LedCall("setStopButtonLED", num - 16, 0, "black", 0, TRUE)

\* the first calls of startupSequence
StartupCalls ==
    { LedCall("setMatrixButtonLED", 3, 3, "green", 50, FALSE),
      LedCall("setMatrixButtonLED", 3, 3, "green", 100, FALSE),
      LedCall("setMatrixButtonLED", 2, 3, "green", 50, FALSE) }

InitThreads ==
    /\ thread_pc = [t \in Threads |-> "idle"]
    /\ thread_call = [t \in Threads |->
                         LedCall("none", 0, 0, "black", 0, FALSE)]
    /\ wild = FALSE

\* the first statement of a setter that touches shared memory
FirstStatement(call) ==
    IF call.op = "setMatrixButtonLED" THEN "blue"
    ELSE IF call.store THEN "state"
    ELSE "right"

NextStatement(pc) ==
    CASE pc = "blue"  -> "red"
      [] pc = "red"   -> "green"
      [] pc = "green" -> "send"
      [] pc = "state" -> "right"
      [] pc = "right" -> "left"
      [] pc = "left"  -> "send"
      [] pc = "send"  -> "idle"

\* a context enters a setter
Begin(t, call) ==
    /\ thread_pc[t] = "idle"
    /\ led_ops < MaxLedOps
    /\ thread_pc' = [thread_pc EXCEPT ![t] = FirstStatement(call)]
    /\ thread_call' = [thread_call EXCEPT ![t] = call]
    /\ led_ops' = led_ops + 1
    /\ UNCHANGED <<led_buffer, matrix_states, special_states, control_states,
                   stop_states, past_special, layout, last_sent, led_call,
                   led_before, wild>>

\* one statement of setMatrixButtonLED or setStopButtonLED
ThreadStep(t) ==
    LET pc == thread_pc[t]
        c == thread_call[t]
        color == getColorWithBrightness(c.color, c.brightness)
        base_byte == MatrixBase(c.a, c.b)
        led_value == convertTo7Bit(255, ClampBrightness(c.brightness))
    IN  /\ pc # "idle"
        /\ thread_pc' = [thread_pc EXCEPT ![t] = NextStatement(pc)]
        /\ led_buffer' =
              CASE pc = "blue"  -> [led_buffer EXCEPT ![base_byte] = color.blue]
                [] pc = "red"   -> [led_buffer EXCEPT ![base_byte + 1] = color.red]
                [] pc = "green" -> [led_buffer EXCEPT ![base_byte + 2] = color.green]
                [] pc = "right" -> [led_buffer EXCEPT ![StopRightByte(c.a)] = led_value]
                [] pc = "left"  -> [led_buffer EXCEPT ![StopLeftByte(c.a)] = led_value]
                [] OTHER        -> led_buffer
        /\ stop_states' =
              IF pc = "state" /\ c.a \in DOMAIN stop_states
              THEN [stop_states EXCEPT ![c.a] = ClampBrightness(c.brightness)]
              ELSE stop_states
        /\ wild' = (wild \/ (pc = "state" /\ c.a \notin DOMAIN stop_states))
        /\ IF pc = "send" THEN sendLEDReport(led_buffer)
           ELSE UNCHANGED last_sent
        /\ UNCHANGED <<thread_call, matrix_states, special_states,
                       control_states, past_special, layout, led_call,
                       led_before, led_ops>>

\* main() reaches the next call of startupSequence
StartupCall ==
    /\ \E c \in StartupCalls : Begin("main", c)
    /\ UNCHANGED <<inputVars, mainVars>>

\* RtMidi delivers a note message to the callback
MidiMessage ==
    /\ \E status \in MidiStatuses, num \in MidiNotes :
          Begin("rtmidi", mycallback(status, num))
    /\ UNCHANGED <<inputVars, mainVars>>

\* either context executes its next statement
Step ==
    /\ \E t \in Threads : ThreadStep(t)
    /\ UNCHANGED <<inputVars, mainVars>>

-----------------------------------------------------------------------------
(* Specifications *)

Init == InitInput /\ InitLED /\ InitMain /\ InitThreads

\* the poller built on ControllerHandler
Next == Run \/ Tick
Spec == Init /\ [][Next]_vars

\* the LED surface
NextLED == SetMatrix \/ SetButton \/ SetStop \/ ClearAll
SpecLED == Init /\ [][NextLED]_vars

\* the stand-alone poller of main.cpp
NextMain == MainLoop
SpecMain == Init /\ [][NextMain]_vars

\* main()'s start-up animation and the MIDI input callback, each on its
\* own thread
NextMidi == StartupCall \/ MidiMessage \/ Step
SpecMidi == Init /\ [][NextMidi]_vars

\* the poller under the scheduling main() gives it: the loop calls run()
\* again and again, and the system clock keeps running
SpecPoll == Init /\ [][Next]_vars /\ WF_vars(Run) /\ WF_vars(Tick)

-----------------------------------------------------------------------------
(* Properties of ControllerHandler::run, for Spec *)

\* how often one delegate call occurs among the calls of a frame
CountEv(evs, name, a, b) ==
    Len(SelectSeq(evs, LAMBDA e : e = Ev(name, a, b)))

\* 1 when the condition holds, else 0
Once(cond) == IF cond THEN 1 ELSE 0

\* a step in which run() processed a frame
FrameProcessed == now' = now /\ run_result'

\* C1: in every processed frame a matrix button yields exactly one
\* onMatrixButtonPress when it is pressed and was released in the processed
\* frame before, exactly one onMatrixButtonRelease when it is released and was
\* pressed before, and nothing while its state stays the same.
C1_MatrixEdgeEvents ==
    [][FrameProcessed =>
        \A row \in Rows, col \in Cols :
            LET pressed == isMatrixButtonPressed(input_report_buffer', row, col)
                was == /\ frames_processed = 1
                       /\ isMatrixButtonPressed(last_frame, row, col)
            IN  /\ CountEv(events', "onMatrixButtonPress", row, col)
                       = Once(pressed /\ ~was)
                /\ CountEv(events', "onMatrixButtonRelease", row, col)
                       = Once(~pressed /\ was)]_vars

\* C1 witness: a frame released matrix button (0, 0), which an earlier frame
\* had pressed, and produced the one release event.
C1_Witness ==
    /\ run_result
    /\ ~isMatrixButtonPressed(last_frame, 0, 0)
    /\ CountEv(events, "onMatrixButtonRelease", 0, 0) = 1

\* C2: every special button and every stop button is reported by edge: one
\* press event on the frame it goes down, one release event on the frame it
\* goes up, nothing while it is held or idle.
C2_ButtonEdgeEvents ==
    [][FrameProcessed =>
        /\ \A i \in SpecialIdx :
              LET pressed == isSpecialButtonPressed(input_report_buffer', i)
                  was == /\ frames_processed = 1
                         /\ isSpecialButtonPressed(last_frame, i)
              IN  /\ CountEv(events', "onButtonPress", 4 + i, 0)
                         = Once(pressed /\ ~was)
                  /\ CountEv(events', "onButtonRelease", 4 + i, 0)
                         = Once(~pressed /\ was)
        /\ \A i \in StopIdx :
              LET pressed == isStopButtonPressed(input_report_buffer', i)
                  was == /\ frames_processed = 1
                         /\ isStopButtonPressed(last_frame, i)
              IN  /\ CountEv(events', "onButtonPress", i, 0)
                         = Once(pressed /\ ~was)
                  /\ CountEv(events', "onButtonRelease", i, 0)
                         = Once(~pressed /\ was)]_vars

C5_BadIdRejected ==
    [][(/\ now' = now
        /\ bytes_read' > 0
        /\ input_report_buffer'[0] # INPUT_REPORT_ID)
       => /\ ~run_result'
          /\ events' = <<>>
          /\ UNCHANGED <<previous_state, current_state, specialPressed,
                         previous_knob_values, previous_fader_values,
                         is_fader_value_dirty, last_slider_change,
                         current_effect_page, wheel_initialized,
                         wheel_previous>>]_vars

\* C5 witness: a report with a wrong id and every control active was rejected
\* after a frame with nothing pressed, and the snapshots still show nothing
\* pressed.
C5_Witness ==
    /\ bytes_read = INPUT_REPORT_SIZE
    /\ input_report_buffer[0] # INPUT_REPORT_ID
    /\ isSpecialButtonPressed(input_report_buffer, 0)
    /\ ~run_result
    /\ frames_processed = 1
    /\ ~specialPressed[0]
    /\ previous_knob_values[0] = 0

\* C6: a read shorter than INPUT_REPORT_SIZE bytes is rejected: run() returns
\* false and emits nothing.
C6_ShortReadRejected ==
    bytes_read \in 1..(INPUT_REPORT_SIZE - 1) =>
        (~run_result /\ events = <<>>)

-----------------------------------------------------------------------------
(* Properties of the poller of main.cpp, for SpecMain *)

\* C7: a read that returned no data is told apart from a decode failure by
\* the result of readInputReport, and the loop goes on polling after it.
C7_NoDataKeepsPolling ==
    ReadKind(main_read.n, main_read.buffer) = "nodata" =>
        /\ main_read.result
               # readInputReport(INPUT_REPORT_SIZE, Patch(BusyReport, 0, 2))
        /\ main_pc = "polling"

\* C8: after a report with a wrong identifier the loop goes on polling.
C8_MalformedKeepsPolling ==
    ReadKind(main_read.n, main_read.buffer) = "malformed" =>
        main_pc = "polling"

-----------------------------------------------------------------------------
(* Properties of the LED setters, for SpecLED *)

\* the byte of each button LED in the report, as the header lays it out
ButtonLedByte ==
    [i \in LEDButtons |->
        CASE i = LEDButton.CAPTURE -> LED_BYTE_CONTROL_START + LED_OFFSET_CAPTURE
          [] i = LEDButton.QUANT   -> LED_BYTE_CONTROL_START + LED_OFFSET_QUANT
          [] i = LEDButton.SYNC    -> LED_BYTE_CONTROL_START + LED_OFFSET_SYNC
          [] i = LEDButton.BROWSE  -> LED_BYTE_SPECIAL_START + LED_OFFSET_BROWSE
          [] i = LEDButton.SIZE    -> LED_BYTE_SPECIAL_START + LED_OFFSET_SIZE
          [] i = LEDButton.TYPE    -> LED_BYTE_SPECIAL_START + LED_OFFSET_TYPE
          [] i = LEDButton.REVERSE -> LED_BYTE_SPECIAL_START + LED_OFFSET_REVERSE
          [] i = LEDButton.SHIFT   -> LED_BYTE_SPECIAL_START + LED_OFFSET_SHIFT]

\* the two bytes of each stop LED in the report, as the header lays them out
StopLedBytes ==
    [i \in StopIdx |->
        CASE i = 0 -> {LED_BYTE_STOP_START + LED_OFFSET_STOP1_RIGHT,
                       LED_BYTE_STOP_START + LED_OFFSET_STOP1_LEFT}
          [] i = 1 -> {LED_BYTE_STOP_START + LED_OFFSET_STOP2_RIGHT,
                       LED_BYTE_STOP_START + LED_OFFSET_STOP2_LEFT}
          [] i = 2 -> {LED_BYTE_STOP_START + LED_OFFSET_STOP3_RIGHT,
                       LED_BYTE_STOP_START + LED_OFFSET_STOP3_LEFT}
          [] i = 3 -> {LED_BYTE_STOP_START + LED_OFFSET_STOP4_RIGHT,
                       LED_BYTE_STOP_START + LED_OFFSET_STOP4_LEFT}]

\* one LED: the setter that drives it and its position
Led(op, a, b) == [op |-> op, a |-> a, b |-> b]

Leds ==
    {Led("setMatrixButtonLED", row, col) : row \in Rows, col \in Cols}
        \cup {Led("setButtonLED", i, 0) : i \in LEDButtons}
        \cup {Led("setStopButtonLED", i, 0) : i \in StopIdx}

\* the bytes that belong to one LED
BytesOfLed(led) ==
    CASE led.op = "setMatrixButtonLED" ->
             {25 + 3 * (4 * led.a + led.b) + k : k \in 0..2}
      [] led.op = "setButtonLED" -> {ButtonLedByte[led.a]}
      [] led.op = "setStopButtonLED" -> StopLedBytes[led.a]

\* the bytes of two different LEDs never overlap, and each group of LEDs
\* stays in its region of the report
LedBytesDisjoint ==
    /\ \A l1 \in Leds, l2 \in Leds :
          l1 # l2 => BytesOfLed(l1) \cap BytesOfLed(l2) = {}
    /\ \A led \in Leds :
          BytesOfLed(led) \subseteq
              (CASE led.op = "setMatrixButtonLED" -> 25..72
                 [] led.op = "setButtonLED" -> 17..24
                 [] led.op = "setStopButtonLED" -> 73..80)

C10_MatrixStateRoundTrip ==
    (led_call.op = "setMatrixButtonLED" /\ led_call.store) =>
        getMatrixButtonState(led_call.a, led_call.b)
            = [color |-> led_call.color, brightness |-> led_call.brightness]

\* the stored brightness of every button and stop LED, as the getters and
\* the tables give it
StoredBrightness ==
    [button |-> [b \in LEDButtons |-> getButtonState(b)],
     stop   |-> stop_states]

\* C11: a button or stop setter called with store_led_state = FALSE writes
\* the hardware byte(s) and leaves every stored state as it was; called with
\* store_led_state = TRUE it sets the stored brightness of the addressed LED
\* to the clamped request. So a stored value outlives any later call that
\* does not store.
C11_StoreFlagControlsRecording ==
    [][(led_call'.op \in {"setButtonLED", "setStopButtonLED"}) =>
        LET c == led_call'
            value == convertTo7Bit(255, ClampBrightness(c.brightness))
        IN  /\ IF c.op = "setButtonLED"
               THEN led_buffer'[ButtonLedByte[c.a]] = value
               ELSE \A i \in StopLedBytes[c.a] : led_buffer'[i] = value
            /\ IF ~c.store
               THEN /\ StoredBrightness' = StoredBrightness
                    /\ UNCHANGED <<matrix_states, special_states,
                                   control_states, stop_states>>
               ELSE IF c.op = "setButtonLED"
               THEN \E b \in LEDButtons :
                        /\ b = c.a
                        /\ getButtonState(b)' = ClampBrightness(c.brightness)
               ELSE stop_states'[c.a] = ClampBrightness(c.brightness)]_vars

\* C11 witness: SHIFT was stored at 0.5, then highlighted at 0.8 without
\* storing; the byte shows the highlight and the stored value is still 0.5.
C11_Witness ==
    /\ led_call = LedCall("setButtonLED", LEDButton.SHIFT, 0, "black", 80,
                          FALSE)
    /\ getButtonState(LEDButton.SHIFT) = 50
    /\ led_buffer[ButtonLedByte[LEDButton.SHIFT]] = convertTo7Bit(255, 80)

\* C12: the getters never read outside the state tables: getButtonState
\* reads an element of special_states for every LEDButton value, and
\* getMatrixButtonState reads an element of matrix_states or, out of range,
\* returns the off state.
C12_GettersReadInsideTables ==
    /\ \A b \in LEDButtons :
          getButtonStateRead(b) \in DOMAIN special_states
    /\ \A row \in -1..5, col \in -1..5 :
          LET at == getMatrixButtonStateRead(row, col)
          IN  IF at = <<-1, -1>>
              THEN getMatrixButtonState(row, col) = OffState
              ELSE /\ at[1] \in DOMAIN matrix_states
                   /\ at[2] \in DOMAIN matrix_states[at[1]]

\* q(x) = round(x * 127 / 255); no x in 0..255 lands on a half
Quantize7(x) == (2 * x * 127 + 255) \div 510

BitIsSet(byte, k) == (byte \div (2 ^ k)) % 2 = 1

\* C14 as stated: the matrix cells read by a processed frame sit with rows 0
\* and 2 in the two nibbles of one of bytes 1 and 2, rows 1 and 3 in the two
\* nibbles of the other, column 0 on the nibble's highest bit.
C14_RowsZeroAndTwoShareByte ==
    run_result =>
        \E b02 \in {1, 2}, top02 \in {0, 2}, top13 \in {1, 3} :
            \A row \in Rows, col \in Cols :
                current_state[row][col] =
                    BitIsSet(input_report_buffer[IF row \in {0, 2} THEN b02
                                                 ELSE 3 - b02],
                             (3 - col) + (IF row \in {top02, top13} THEN 4 ELSE 0))

\* C14 amended: rows 0 and 1 are the high and the low nibble of byte 1, rows
\* 2 and 3 the high and the low nibble of byte 2; column 0 is the nibble's
\* highest bit, column 3 its lowest.
C14_MatrixBitAddressing ==
    run_result =>
        \A row \in Rows, col \in Cols :
            current_state[row][col] =
                BitIsSet(input_report_buffer[1 + (row \div 2)],
                         (3 - col) + 4 * (1 - (row % 2)))

C14_Witness ==
    /\ run_result
    /\ input_report_buffer[1] = 136 /\ input_report_buffer[2] = 65
    /\ current_state[0][0] /\ current_state[1][0]
    /\ current_state[2][1] /\ current_state[3][3]
    /\ ~current_state[2][0] /\ ~current_state[1][3]

BitCount(byte) == Cardinality({k \in 0..7 : BitIsSet(byte, k)})

\* the 29 buttons: 6 special, 4 stop, 3 control, 16 matrix cells
Buttons29 ==
    ({"special"} \X (0..5)) \cup ({"stop"} \X (0..3)) \cup
    ({"control"} \X (0..2)) \cup ({"matrix"} \X (0..15))

\* the buttons the last processed frame read as pressed
PressedButtons ==
    {b \in Buttons29 :
        CASE b[1] = "special" -> specialPressed[b[2]]
          [] b[1] = "control" -> specialPressed[6 + b[2]]
          [] b[1] = "stop"    -> isStopButtonPressed(input_report_buffer, b[2])
          [] b[1] = "matrix"  -> current_state[b[2] \div 4][b[2] % 4]}

NormalizationTable ==
    /\ KnobRawToNormalized(0) = 0 /\ rawToNormalized(0) = 0
    /\ KnobRawToNormalized(4095) = 127 /\ rawToNormalized(4095) = 127
    /\ \A raw \in 0..4095 :
          /\ KnobRawToNormalized(raw) \in 0..127
          /\ rawToNormalized(raw) \in 0..127
          /\ raw < 4095 =>
                /\ KnobRawToNormalized(raw) <= KnobRawToNormalized(raw + 1)
                /\ rawToNormalized(raw) <= rawToNormalized(raw + 1)

\* the raw 12-bit sample of an analog channel in a report
RawSample(buffer, first, ch) ==
    (buffer[first + 2 * ch] + 256 * buffer[first + 2 * ch + 1]) % 4096

C17_AnalogPayloadNormalized ==
    \A i \in 1..Len(events) :
        /\ events[i].ev = "onKnobChanged" =>
              /\ events[i].b = getKnobValue(input_report_buffer, events[i].a)
              /\ events[i].b \in 0..127
        /\ events[i].ev = "onSliderChanged" =>
              /\ events[i].b = getFaderValue(input_report_buffer, events[i].a)
              /\ events[i].b \in 0..127

\* the context is inside an LED setter: it has entered it and not yet
\* returned from sending the report
InSetter(t) == thread_pc[t] # "idle"

\* C18: led_buffer and the state tables have one writer: the writes of a
\* setter called by the MIDI input callback never interleave with the writes
\* of a setter called by the main thread, so the two contexts are never
\* inside a setter at the same time.
C18_SingleWriter ==
    ~(InSetter("main") /\ InSetter("rtmidi"))

\* C19: bytes 1..16 of the LED buffer, the two display regions, are never
\* changed by a call of setMatrixButtonLED, setButtonLED or setStopButtonLED
\* made by the program's callers, nor by clearAllLEDs.
C19_DisplayBytesUntouched ==
    [][\A i \in 1..16 : led_buffer'[i] = led_buffer[i]]_vars

\* C20: while a fader is dirty no event is emitted for it until 50 ms have
\* passed since the frame in which its value most recently changed, every
\* change restarting the window: so a frame in which the value changes, on
\* which no time at all has passed since the most recent change, emits no
\* event for the fader; and a frame that does emit emits exactly one event,
\* with the value of that frame (as the delegate receives it, twice the
\* 7-bit value), and clears the dirty flag.
C20_WindowRestartsOnChange ==
    [][FrameProcessed =>
        \A fader \in Channels :
            LET evs == SliderEvents(events', fader)
                value == getFaderValue(input_report_buffer', fader)
            IN  /\ FaderChanged(input_report_buffer', fader) => evs = <<>>
                /\ evs # <<>> =>
                      /\ Len(evs) = 1
                      /\ evs[1].b = 2 * value
                      /\ ~is_fader_value_dirty'[fader]]_vars

\* C21: after every processed frame the stored previous value of each matrix
\* button, each special and control button, each knob and each fader is the
\* value decoded from that frame, whether or not the frame emitted an event
\* for it.
C21_PreviousStateAdvanced ==
    run_result =>
        LET buf == input_report_buffer
        IN  /\ \A row \in Rows, col \in Cols :
                  previous_state[row][col] = isMatrixButtonPressed(buf, row, col)
            /\ \A i \in SpecialIdx :
                  specialPressed[i] = isSpecialButtonPressed(buf, i)
            /\ \A ch \in Channels :
                  /\ previous_knob_values[ch] = getKnobValue(buf, ch)
                  /\ previous_fader_values[ch] = getFaderValue(buf, ch)

\* C21 witness: a second frame moved fader 0 without reporting it, and the
\* moved value is the stored one.
C21_Witness ==
    /\ run_result
    /\ frames_processed = 1
    /\ burst_changes[0] = 2
    /\ is_fader_value_dirty[0]
    /\ SliderEvents(events, 0) = <<>>
    /\ previous_fader_values[0] = 2
    /\ getFaderValue(input_report_buffer, 0) = 2

\* byte values tried in each position of a channel's pair
ByteSamples == {0, 1, 15, 16, 33, 127, 128, 240, 255}

\* reports with the same byte everywhere behind the report id
FilledReport(v) ==
    [i \in 0..(INPUT_REPORT_SIZE - 1) |-> IF i = 0 THEN INPUT_REPORT_ID ELSE v]

\* the raw value of every channel for every sampled pair of bytes, whatever
\* the other bytes of the report hold
RawExtractionTable ==
    \A ch \in Channels, lo \in ByteSamples, hi \in ByteSamples,
       rest \in {0, 255} :
        LET knobs == Patch(Patch(FilledReport(rest), 6 + 2 * ch, lo),
                           7 + 2 * ch, hi)
            faders == Patch(Patch(FilledReport(rest), 14 + 2 * ch, lo),
                            15 + 2 * ch, hi)
        IN  /\ extractRawKnobValue(knobs, ch) = (lo + 256 * hi) % 4096
            /\ extractRawFaderValue(faders, ch) = (lo + 256 * hi) % 4096
            /\ extractRawKnobValue(knobs, ch) \in 0..4095
            /\ extractRawFaderValue(faders, ch) \in 0..4095

\* the byte pairs of the eight channels, as the claim gives them
ChannelPairs ==
    [k \in 0..7 |-> IF k < 4 THEN {6 + 2 * k, 7 + 2 * k}
                    ELSE {14 + 2 * (k - 4), 15 + 2 * (k - 4)}]

ChannelPairsDisjoint ==
    /\ \A k \in 0..7 : ChannelPairs[k] \subseteq 0..(INPUT_REPORT_SIZE - 1)
    /\ \A j \in 0..7, k \in 0..7 :
          j # k => ChannelPairs[j] \cap ChannelPairs[k] = {}

BrightnessSamples == {-50, -1, 0, 1, 20, 33, 50, 75, 80, 85, 99, 100, 101, 150}

\* the nearest integer to num / den, halves upwards
RoundDiv(num, den) == (2 * num + den) \div (2 * den)

\* convertTo7Bit against round(c * 127/255 * b') for every channel value
QuantizationTable ==
    \A c \in 0..255, b \in BrightnessSamples :
        LET clamped == IF b < 0 THEN 0 ELSE IF b > 100 THEN 100 ELSE b
        IN  /\ convertTo7Bit(c, b) = RoundDiv(c * 127 * clamped, 255 * 100)
            /\ convertTo7Bit(c, b) \in 0..127

\* C23: convertTo7Bit returns round(c * 127/255 * b') for every channel
\* value c in 0..255 and every brightness b, b' being b clamped to 0..1, and
\* the result is in 0..127; so every byte the setters leave in the button,
\* matrix and stop regions of the LED buffer is at most 127.
C23_HardwareQuantization ==
    /\ QuantizationTable
    /\ \A i \in 17..80 : led_buffer[i] \in 0..127

\* C23 witness: a button set with brightness 1.5 holds the full 7-bit value,
\* next to a matrix triple written before
C23_Witness ==
    /\ led_call.op = "setButtonLED"
    /\ led_call.brightness = 150
    /\ led_buffer[ButtonLedByte[led_call.a]] = 127
    /\ \E i \in 25..72 : led_buffer[i] \in 1..126

(***************************************************************************)
(* C24: after initializeLEDController, byte 0 of the output buffer is the  *)
(* report identifier 0x80 in every reachable state, through any sequence   *)
(* of in-range setMatrixButtonLED, setButtonLED, setStopButtonLED calls    *)
(* and clearAllLEDs; every report handed to the transport is the full      *)
(* 81-byte buffer with byte 0 = 0x80.                                      *)
(***************************************************************************)
C24_ReportIdentifierKept ==
    /\ DOMAIN led_buffer = 0..80
    /\ led_buffer[0] = 128
    /\ DOMAIN last_sent = 0..80
    /\ last_sent[0] = 128
    /\ last_sent = led_buffer

C24_Witness ==
    /\ led_call.op = "clearAllLEDs"
    /\ \E i \in 1..80 : led_before[i] # 0
    /\ \A i \in 1..80 : led_buffer[i] = 0
    /\ led_buffer[0] = 128
    /\ last_sent = led_buffer

(***************************************************************************)
(* C25: single-LED and stop-LED addressing matches the documented offset   *)
(* table: setButtonLED writes CAPTURE, QUANT, SYNC to bytes 22, 23, 24     *)
(* and BROWSE, SIZE, TYPE, REVERSE, SHIFT to bytes 17..21;                 *)
(* setStopButtonLED(index), index 0..3, writes the same 7-bit value to     *)
(* both bytes of its button: STOP1 79 and 80, STOP2 77 and 78, STOP3 75    *)
(* and 76, STOP4 73 and 74.                                                *)
(***************************************************************************)
DocumentedButtonByte ==
    [i \in LEDButtons |->
        CASE i = LEDButton.CAPTURE -> 22
          [] i = LEDButton.QUANT   -> 23
          [] i = LEDButton.SYNC    -> 24
          [] i = LEDButton.BROWSE  -> 17
          [] i = LEDButton.SIZE    -> 18
          [] i = LEDButton.TYPE    -> 19
          [] i = LEDButton.REVERSE -> 20
          [] i = LEDButton.SHIFT   -> 21]

DocumentedStopBytes ==
    [i \in StopIdx |->
        CASE i = 0 -> {79, 80}
          [] i = 1 -> {77, 78}
          [] i = 2 -> {75, 76}
          [] i = 3 -> {73, 74}]

\* the setters' address arithmetic gives the documented bytes
OffsetTable ==
    /\ \A i \in LEDButtons : ButtonByte(i) = DocumentedButtonByte[i]
    /\ \A i \in StopIdx :
          {StopLeftByte(i), StopRightByte(i)} = DocumentedStopBytes[i]

\* the call just made changed the documented bytes, to the 7-bit value of
\* its brightness, and no other byte
C25_DocumentedOffsets ==
    /\ OffsetTable
    /\ led_call.op = "setButtonLED" =>
          LET value == convertTo7Bit(255, ClampBrightness(led_call.brightness))
          IN  \A i \in 0..80 :
                 led_buffer[i] = IF i = DocumentedButtonByte[led_call.a]
                                 THEN value ELSE led_before[i]
    /\ led_call.op = "setStopButtonLED" =>
          LET value == convertTo7Bit(255, ClampBrightness(led_call.brightness))
          IN  \A i \in 0..80 :
                 led_buffer[i] = IF i \in DocumentedStopBytes[led_call.a]
                                 THEN value ELSE led_before[i]

C25_Witness ==
    /\ led_call.op = "setStopButtonLED"
    /\ led_call.a = 0
    /\ led_call.brightness = 80
    /\ led_before[79] = 0
    /\ led_buffer[79] = 102
    /\ led_buffer[80] = 102
    /\ led_buffer[22] = 64

(***************************************************************************)
(* C26: for every MIDI message of three or more bytes handled by           *)
(* MidiHandler::mycallback, every LED write it triggers stays inside the   *)
(* 81-byte buffer and inside the region of the LED class it addresses      *)
(* (matrix bytes 25..72 for notes 36..51, stop bytes 73..80 otherwise),    *)
(* and every logical-state write stays inside stop_states[4].              *)
(***************************************************************************)
\* the statement at pc of the callback's setter call c stays in its region
CallbackWriteInBounds(pc, c) ==
    CASE pc = "blue"  -> MatrixBase(c.a, c.b) \in 25..72
      [] pc = "red"   -> MatrixBase(c.a, c.b) + 1 \in 25..72
      [] pc = "green" -> MatrixBase(c.a, c.b) + 2 \in 25..72
      [] pc = "right" -> StopRightByte(c.a) \in 73..80
      [] pc = "left"  -> StopLeftByte(c.a) \in 73..80
      [] pc = "state" -> c.a \in 0..3
      [] OTHER        -> TRUE

C26_CallbackWritesInBounds ==
    [][(thread_pc["rtmidi"] # "idle" /\
        thread_pc'["rtmidi"] = NextStatement(thread_pc["rtmidi"]) /\
        thread_call'["rtmidi"] = thread_call["rtmidi"] /\
        thread_pc'["main"] = thread_pc["main"])
          => CallbackWriteInBounds(thread_pc["rtmidi"], thread_call["rtmidi"])
      ]_vars

(***************************************************************************)
(* C27: for every value of the LEDButton enum, setButtonLED with           *)
(* store_led_state = true writes the logical state at an index inside the  *)
(* bounds of its shadow table and changes the stored intent of the         *)
(* addressed button only; the stored intent of every other button, stop    *)
(* button and matrix cell is unchanged.                                    *)
(***************************************************************************)
C27_ButtonStoreInBounds ==
    [][(led_ops' = led_ops + 1 /\ led_call'.op = "setButtonLED"
                               /\ led_call'.store)
          => /\ led_call'.a \in DOMAIN special_states
             /\ \A i \in DOMAIN special_states \ {led_call'.a} :
                   special_states'[i] = special_states[i]
             /\ control_states' = control_states
             /\ stop_states' = stop_states
             /\ matrix_states' = matrix_states
      ]_vars

(***************************************************************************)
(* C28: fader liveness: if a fader's value changes in some processed       *)
(* frame (the fader becomes dirty), a slider event carrying its latest     *)
(* value is eventually emitted, provided only that the poller keeps        *)
(* calling ControllerHandler::run, even if the device delivers no further  *)
(* input report after the change.  Stated from the moment the 50 ms        *)
(* window has run out, so that the clock is not what holds the event back, *)
(* and for the case the claim names: the event comes unless the device     *)
(* delivers something again.                                               *)
(***************************************************************************)
\* the last read of run() brought bytes from the device
ReportDelivered == bytes_read > 0

C28_DirtyFaderEventuallyEmits ==
    \A fader \in Channels :
        (is_fader_value_dirty[fader] /\ now - last_slider_change[fader] > 50)
            ~> (SliderEvents(events, fader) # <<>> \/ ReportDelivered)

(***************************************************************************)
(* C29: two consecutive slider events emitted for the same fader never     *)
(* carry the same value: a fader whose value moves away from and returns   *)
(* to its last reported value (for example 10, 11, 10 in successive        *)
(* frames) produces no event for that excursion.                           *)
(***************************************************************************)
C29_NoRepeatedSliderValue ==
    [][FrameProcessed =>
        \A fader \in Channels :
            (SliderEvents(events', fader) # <<>> /\ last_reported[fader] # -1)
                => SliderEvents(events', fader)[1].b # last_reported[fader]
      ]_vars

(***************************************************************************)
(* C30: start-up baseline: the previous analog values being initialised    *)
(* to -1, the first valid frame processed after construction emits one     *)
(* knob-changed event for each of the 4 knobs whatever their positions,    *)
(* and marks each of the 4 faders dirty without emitting, so that each     *)
(* fader emits exactly one initial event once more than 50 ms have passed  *)
(* (in the first frame processed after that); from the second frame on,    *)
(* an analog channel whose truncated value is unchanged and that is not    *)
(* dirty emits nothing.                                                    *)
(***************************************************************************)
KnobEventsOf(evs, knob) ==
    SelectSeq(evs, LAMBDA e : e.ev = "onKnobChanged" /\ e.a = knob)

\* the first processed frame
FirstFrameBaseline ==
    \A ch \in Channels :
        /\ previous_knob_values[ch] = -1
        /\ previous_fader_values[ch] = -1
        /\ KnobEventsOf(events', ch) =
              <<Ev("onKnobChanged", ch,
                   getKnobValue(input_report_buffer', ch) * 2)>>
        /\ is_fader_value_dirty'[ch]
        /\ SliderEvents(events', ch) = <<>>
        /\ last_slider_change'[ch] = now

\* a later frame, for a fader that has not reported yet: the one initial
\* event comes with the first frame later than 50 ms after the first one
InitialFaderEvent ==
    \A fader \in Channels :
        last_reported[fader] = -1 =>
            /\ is_fader_value_dirty[fader]
            /\ IF now - last_slider_change[fader] > 50
               THEN /\ SliderEvents(events', fader) =
                          <<Ev("onSliderChanged", fader,
                               getFaderValue(input_report_buffer', fader) * 2)>>
                    /\ last_reported'[fader] # -1
                    /\ ~is_fader_value_dirty'[fader]
               ELSE /\ SliderEvents(events', fader) = <<>>
                    /\ last_reported'[fader] = -1

\* a later frame, for a channel at rest
QuietChannelsSilent ==
    \A ch \in Channels :
        /\ getKnobValue(input_report_buffer', ch) = previous_knob_values[ch]
              => KnobEventsOf(events', ch) = <<>>
        /\ (/\ getFaderValue(input_report_buffer', ch) = previous_fader_values[ch]
            /\ ~is_fader_value_dirty[ch])
              => SliderEvents(events', ch) = <<>>

C30_StartupBaseline ==
    [][FrameProcessed =>
          IF frames_processed = 0 THEN FirstFrameBaseline
          ELSE InitialFaderEvent /\ QuietChannelsSilent
      ]_vars

\* C30 witness: the frame at 51 ms, the first one after the window, in which
\* all four faders report their initial value and no knob has moved
C30_Witness ==
    /\ run_result
    /\ now = 51
    /\ frames_processed = 1
    /\ \A ch \in Channels :
          /\ Len(SliderEvents(events, ch)) = 1
          /\ last_reported[ch] = 2 * previous_fader_values[ch]
          /\ ~is_fader_value_dirty[ch]
          /\ KnobEventsOf(events, ch) = <<>>

=============================================================================
